---- MODULE Spec2Model ----
(***************************************************************************)
(* The paper ingestion pipeline of src/pipeline: the POST /ingest handler, *)
(* the background pipeline run (_run_pipeline) with its four stages, the   *)
(* background tagging task (_tag_constellation), the status store          *)
(* (Supabase table paper_documents) and the secondary index (Supermemory). *)
(*                                                                         *)
(* The service is one asyncio event loop.  A coroutine runs without        *)
(* interruption up to the next await that really suspends (an outbound     *)
(* call made through an async client); the Supabase client is synchronous, *)
(* so a status read or write never suspends.  Each action below is one     *)
(* such uninterrupted block.                                               *)
(*                                                                         *)
(* Nullable values are sequences: << >> is None, <<v>> is the value v.     *)
(* A document text is a sequence of tokens; the token SEP is the blank     *)
(* line "\n\n" that str.join puts between two parts.                       *)
(***************************************************************************)
EXTENDS Naturals, Sequences, FiniteSets

\* ------------------------------------------------------------------ bounds
\* Number of POST /ingest requests handled in a behaviour.
MaxSubmits == 2
\* Largest number of chunks of the document converted in SpecConvert.
MaxChunks == 5
\* Largest number of lines of the document densified in SpecDensify.
MaxLines == 4
\* Largest number of pages and largest chunk size of the documents split in
\* SpecSplit.
MaxPages == 12
MaxPagesPerChunk == 6

\* ------------------------------------------------------- values and inputs
None == << >>
Some(v) == <<v>>

SEP == "\n\n"

IdA == "2301.00001"
IdB == "hep-th/9901001"
Ids == {IdA, IdB}

\* A string that may be an arXiv id, by the character classes the pattern
\* _ARXIV_ID_PATTERN reads: the archive prefix before "/" ("" when there is
\* none), the number of digits before and after the dot (post = 0: no dot), a
\* "vN" suffix, a ".pdf" suffix; id is the text of the archive/number part.
TokA == [arch |-> "", pre |-> 4, post |-> 5, ver |-> TRUE, pdf |-> FALSE, id |-> IdA]
TokB == [arch |-> "hep-th", pre |-> 7, post |-> 0, ver |-> FALSE, pdf |-> TRUE, id |-> IdB]
TokBad == [arch |-> "", pre |-> 3, post |-> 0, ver |-> FALSE, pdf |-> TRUE, id |-> "doc"]

\* A paper_url: either a bare token (raw = TRUE, the token in rest) or a URL with
\* its host labels, its first path segment (kind) and the remaining segments
\* joined by "/" (rest, None when the path has fewer than two segments).
UrlAbsA == [raw |-> FALSE, host |-> <<"arxiv", "org">>, kind |-> "abs", rest |-> Some(TokA)]
UrlRawB == [raw |-> TRUE, host |-> << >>, kind |-> "", rest |-> Some(TokB)]
UrlOther == [raw |-> FALSE, host |-> <<"example", "com">>, kind |-> "abs", rest |-> Some(TokA)]
UrlListing == [raw |-> FALSE, host |-> <<"export", "arxiv", "org">>, kind |-> "list", rest |-> Some(TokA)]
UrlPdfBad == [raw |-> FALSE, host |-> <<"arxiv", "org">>, kind |-> "pdf", rest |-> Some(TokBad)]

\* IngestRequest (paper_title is carried to the index metadata only and is left
\* out: no status, guard or stage reads it).
Request(aid, url, gid) == [arxiv_id |-> aid, paper_url |-> url, constellation_id |-> gid]

\* The requests the clients send: an abs URL; an explicit id with a URL that
\* is not arXiv's; a bare old-style id; and three requests no identifier can be
\* derived from.
Requests == {Request(None, UrlAbsA, "g1"), Request(Some(IdA), UrlOther, "g2"), Request(None, UrlRawB, "g1"), Request(None, UrlOther, "g1"), Request(Some(""), UrlListing, "g2"), Request(None, UrlPdfBad, "g1")}

\* ------------------------------------------------------ identifier parsing
_parse_arxiv_id(tok) == IF tok.arch # "" /\ tok.pre = 7 /\ tok.post = 0 THEN Some(tok.id) ELSE IF tok.arch = "" /\ tok.pre = 4 /\ tok.post \in {4, 5} THEN Some(tok.id) ELSE None

is_arxiv_url(url) == /\ Len(url.host) >= 2
                     /\ url.host[Len(url.host) - 1] = "arxiv"
                     /\ url.host[Len(url.host)] = "org"

extract_any_path(url) == IF url.raw THEN _parse_arxiv_id(url.rest[1]) ELSE IF ~is_arxiv_url(url) THEN None ELSE IF url.rest = None THEN None ELSE _parse_arxiv_id(url.rest[1])

\* arxiv.py lines 27-45
extract_arxiv_id(url) == IF url.raw THEN _parse_arxiv_id(url.rest[1]) ELSE IF ~is_arxiv_url(url) THEN None ELSE IF url.rest = None THEN None ELSE IF url.kind \notin {"abs", "pdf"} THEN None ELSE _parse_arxiv_id(url.rest[1])

\* arxiv.py lines 48-53: "https://arxiv.org/pdf/{id}.pdf", or None.
to_canonical_pdf_url(url) == IF extract_arxiv_id(url) = None THEN None ELSE Some(<<"https://arxiv.org/pdf/", extract_arxiv_id(url)[1], ".pdf">>)

\* Python truthiness of an optional string: None and "" are false.
Truthy(opt) == opt # None /\ opt[1] # ""

\* ------------------------------------------------------------------- state
VARIABLES records, runs, tags, index, hasKey, nSubmits, resp, cv, dz, sp

vars == <<records, runs, tags, index, hasKey, nSubmits, resp, cv, dz, sp>>

\* A row of paper_documents, and rows: the number of rows of the table that
\* carry the identifier (a select, update or read by arxiv_id sees them as
\* one record).
NoRecord == [status |-> "absent", error_message |-> None, markdown |-> None, densified_markdown |-> None, word_count |-> None, rows |-> 0]

NewRecord == [status |-> "pending", error_message |-> None, markdown |-> None, densified_markdown |-> None, word_count |-> None, rows |-> 1]

InProgressTwo == {"downloading", "converting"}

\* ingest.py line 103: the statuses the guard rejects a submission for.
InProgress == {"downloading", "converting", "densifying"}

GuardNoInProgress(current_status) == IF current_status = "complete" THEN "already_complete" ELSE "started"

GuardRerunComplete(current_status) == IF current_status \in InProgress THEN "in_progress" ELSE "started"

\* ingest.py lines 94-125: the outcome of a submission for a record in
\* current_status ("absent" when the select returns no row).
Guard(current_status) == IF current_status = "absent" THEN "started" ELSE IF current_status = "complete" THEN "already_complete" ELSE IF current_status \in InProgress THEN "in_progress" ELSE "started"

\* markdown.py line 26: pages_per_chunk
PagesPerChunk == 5

\* Pages of the PDF served for each identifier (the environment's documents).
PdfPages(id) == IF id = IdA THEN 3 ELSE 5

\* --------------------------------------------------------- status store
\* store.py update_paper_status: one UPDATE ... WHERE arxiv_id = id; the error
\* message is written only when it is truthy, and is never cleared here.
update_paper_status(recs, id, status, error_message) == IF recs[id].status = "absent" THEN recs ELSE [recs EXCEPT ![id] = [@ EXCEPT !.status = status, !.error_message = IF Truthy(error_message) THEN error_message ELSE @]]

save_results_record_status_only(recs, id, markdown, densified_markdown, word_count) == update_paper_status(recs, id, "complete", None)

\* store.py save_results, lines 79-87: the record write of the Store stage.
save_results_record(recs, id, markdown, densified_markdown, word_count) == IF recs[id].status = "absent" THEN recs ELSE [recs EXCEPT ![id] = [@ EXCEPT !.status = "complete", !.markdown = Some(markdown), !.densified_markdown = Some(densified_markdown), !.word_count = Some(word_count)]]

\* ---------------------------------------------------- conversion fan-in
\* markdown.py _split_pdf_into_chunks: the number of chunks of a document of
\* total_pages pages, one per start in range(0, total_pages, pages_per_chunk).
NumChunks(total_pages, pages_per_chunk) == Cardinality({start \in 0..(total_pages - 1) : start % pages_per_chunk = 0})

Min(a, b) == IF a <= b THEN a ELSE b

ChunkFromUnclamped(start, total_pages, pages_per_chunk) == [from_page |-> start, to_page |-> start + pages_per_chunk - 1]

\* markdown.py lines 33-35: end = min(start + pages_per_chunk, total_pages)
\* and the chunk is the pages from_page = start to to_page = end - 1.
ChunkFrom(start, total_pages, pages_per_chunk) == [from_page |-> start, to_page |-> Min(start + pages_per_chunk, total_pages) - 1]

\* One invocation of _split_pdf_into_chunks: the pages of the document, the
\* chunk size, the loop variable start, the chunks appended so far and
\* whether the function has returned.
SpNew(total_pages, pages_per_chunk) == [total_pages |-> total_pages, pages_per_chunk |-> pages_per_chunk, start |-> 0, chunks |-> << >>, out |-> "running"]

SpIdle == [total_pages |-> 0, pages_per_chunk |-> 1, start |-> 0, chunks |-> << >>, out |-> "idle"]

\* markdown.py lines 32-37: one iteration of
\* for start in range(0, total_pages, pages_per_chunk).
SplitStep == /\ sp.out = "running"
             /\ sp.start < sp.total_pages
             /\ sp' = [sp EXCEPT !.chunks = Append(@, ChunkFrom(sp.start, sp.total_pages, sp.pages_per_chunk)), !.start = @ + sp.pages_per_chunk]
             /\ UNCHANGED <<records, runs, tags, index, hasKey, nSubmits, resp, cv, dz>>

\* markdown.py lines 39-42: the range is exhausted; return chunks.
SplitReturn == /\ sp.out = "running"
               /\ ~(sp.start < sp.total_pages)
               /\ sp' = [sp EXCEPT !.out = "returned"]
               /\ UNCHANGED <<records, runs, tags, index, hasKey, nSubmits, resp, cv, dz>>

\* The text the conversion capability returns for chunk idx when not empty.
ChunkText(idx) == <<"c1", "c2", "c3", "c4", "c5", "c6", "c7", "c8", "c9">>[idx]

\* The results a conversion of n chunks can gather: "" is an empty result.
ChunkResults(n) == {res \in [1..n -> {""} \cup {ChunkText(i) : i \in 1..n}] : \A i \in 1..n : res[i] \in {"", ChunkText(i)}}

TooManyEmptyHalf(results) == 2 * Cardinality({i \in DOMAIN results : results[i] = ""}) >= Len(results)

\* sum(1 for r in results if not r)
EmptyCount(results) == Cardinality({i \in DOMAIN results : results[i] = ""})

\* markdown.py line 97: empty_count > len(results) // 2
TooManyEmpty(results) == EmptyCount(results) > (Len(results) \div 2)

RECURSIVE JoinNonEmpty(_)
\* markdown.py line 105: "\n\n".join(r for r in results if r)
JoinNonEmpty(results) == IF results = << >> THEN << >> ELSE LET rest == JoinNonEmpty(Tail(results)) IN IF Head(results) = "" THEN rest ELSE IF rest = << >> THEN <<Head(results)>> ELSE <<Head(results), SEP>> \o rest

\* len(text.split()): the words of a document, SEP being white space.
WordCount(doc) == Cardinality({i \in DOMAIN doc : doc[i] # SEP})

\* ------------------------------------------------------------ densification
\* The compressed text the compression capability returns for a section.
Compressed(tok) == IF tok = SEP THEN SEP ELSE "dense " \o tok

\* densify.py densify_markdown, every section compressed: the sections in
\* their order, joined by a blank line.
DensifyAll(md) == [i \in DOMAIN md |-> Compressed(md[i])]

\* ------------------------------------------------------- the pipeline run
\* A run is a background task: its arguments, its position pc, its locals
\* dl_result (the pages of the downloaded PDF), md and densified, the index
\* request it has in flight (put) and the captured exception message err.
\* When the coroutine returns or dies its arguments and locals are gone: runs
\* keeps the identifier, the way it ended and the captured message.
NewRun(id, url, gid) == [arxiv_id |-> id, paper_url |-> Some(url), constellation_id |-> gid, pc |-> "scheduled", dl_result |-> None, md |-> None, densified |-> None, put |-> None, err |-> None]

Finished == {"complete", "failed", "crashed"}

\* The end of the coroutine, in state pc.
Retire(ctx, pc) == [ctx EXCEPT !.run = [arxiv_id |-> ctx.run.arxiv_id, paper_url |-> None, constellation_id |-> "", pc |-> pc, dl_result |-> None, md |-> None, densified |-> None, put |-> None, err |-> ctx.run.err]]

StoreError == "status store error"

_run_pipeline_except_no_message(ctx, msg, ok) == LET c == [ctx EXCEPT !.run.err = Some(msg)] IN IF ok THEN Retire([c EXCEPT !.recs = update_paper_status(@, c.run.arxiv_id, "failed", None)], "failed") ELSE Retire(c, "crashed")

\* ingest.py lines 68-70: the except block of _run_pipeline writes failed with
\* str(e); when that write raises too (ok = FALSE) the task dies with it.
_run_pipeline_except(ctx, msg, ok) == LET c == [ctx EXCEPT !.run.err = Some(msg)] IN IF ok THEN Retire([c EXCEPT !.recs = update_paper_status(@, c.run.arxiv_id, "failed", Some(msg))], "failed") ELSE Retire(c, "crashed")

_run_pipeline_start_unchecked(ctx, w1, wf) == LET c == IF w1 THEN [ctx EXCEPT !.recs = update_paper_status(@, ctx.run.arxiv_id, "downloading", None)] ELSE ctx IN IF to_canonical_pdf_url(ctx.run.paper_url[1]) = None THEN _run_pipeline_except(c, "Cannot derive PDF URL", wf) ELSE [c EXCEPT !.run.pc = "download"]

\* ingest.py lines 37-38 up to the suspension in download_pdf: the status
\* write, then download_pdf, which raises on a URL without an arXiv id and
\* otherwise awaits the HTTP GET (a cached file is read without suspension,
\* which is the GET returning at once).
_run_pipeline_start(ctx, w1, wf) == IF ~w1 THEN _run_pipeline_except(ctx, StoreError, wf) ELSE LET c == [ctx EXCEPT !.recs = update_paper_status(@, ctx.run.arxiv_id, "downloading", None)] IN IF to_canonical_pdf_url(ctx.run.paper_url[1]) = None THEN _run_pipeline_except(c, "Cannot derive PDF URL", wf) ELSE [c EXCEPT !.run.pc = "download"]

_run_pipeline_downloaded_no_status(ctx, ok, msg, w2, wf) == IF ~ok THEN _run_pipeline_except(ctx, msg, wf) ELSE LET c == [ctx EXCEPT !.run.dl_result = Some(PdfPages(ctx.run.arxiv_id))] IN IF ~w2 THEN _run_pipeline_except(c, StoreError, wf) ELSE IF ~hasKey THEN _run_pipeline_except(c, "No GEMINI_API_KEY set, cannot convert PDF", wf) ELSE [c EXCEPT !.run.pc = "convert"]

\* download.py lines 28-42 and ingest.py lines 42-43: the GET returns or raises
\* with message msg; the status write; convert_pdf_to_markdown up to its
\* gather (it raises at once without a key).
_run_pipeline_downloaded(ctx, ok, msg, w2, wf) == IF ~ok THEN _run_pipeline_except(ctx, msg, wf) ELSE LET c == [ctx EXCEPT !.run.dl_result = Some(PdfPages(ctx.run.arxiv_id))] IN IF ~w2 THEN _run_pipeline_except(c, StoreError, wf) ELSE LET d == [c EXCEPT !.recs = update_paper_status(@, c.run.arxiv_id, "converting", None)] IN IF ~hasKey THEN _run_pipeline_except(d, "No GEMINI_API_KEY set, cannot convert PDF", wf) ELSE [d EXCEPT !.run.pc = "convert"]

\* markdown.py lines 96-105 and ingest.py lines 47-49: the gather of the chunk
\* calls returns results (or raises, ok = FALSE); the quality gate; the join;
\* the status write; densify_markdown up to its gather.
_run_pipeline_converted(ctx, ok, results, w3, wf) == IF ~ok THEN _run_pipeline_except(ctx, "conversion call failed", wf) ELSE IF TooManyEmpty(results) THEN _run_pipeline_except(ctx, "Too many empty chunks", wf) ELSE LET c == [ctx EXCEPT !.run.md = Some(JoinNonEmpty(results))] IN IF ~w3 THEN _run_pipeline_except(c, StoreError, wf) ELSE [c EXCEPT !.recs = update_paper_status(@, c.run.arxiv_id, "densifying", None), !.run.pc = "densify"]

_run_pipeline_densified_fails(ctx, ok, out, cacheOk, w4, wf) == IF ~ok THEN _run_pipeline_except(ctx, "densification failed", wf) ELSE LET c == [ctx EXCEPT !.run.densified = Some(out)] IN IF ~cacheOk THEN _run_pipeline_except(c, "cache write failed", wf) ELSE IF ~w4 THEN _run_pipeline_except(c, StoreError, wf) ELSE [c EXCEPT !.recs = save_results_record(@, c.run.arxiv_id, c.run.md[1], out, WordCount(out)), !.run.pc = "store_list"]

\* ingest.py lines 48-65 and store.py lines 74-93: densify_markdown returns
\* out or raises (then densified = md); save_results writes the cache file and
\* the record and sends the index list request.
_run_pipeline_densified(ctx, ok, out, cacheOk, w4, wf) == LET densified == IF ok THEN out ELSE ctx.run.md[1] IN LET c == [ctx EXCEPT !.run.densified = Some(densified)] IN IF ~cacheOk THEN _run_pipeline_except(c, "cache write failed", wf) ELSE IF ~w4 THEN _run_pipeline_except(c, StoreError, wf) ELSE [c EXCEPT !.recs = save_results_record(@, c.run.arxiv_id, c.run.md[1], densified, WordCount(densified)), !.run.pc = "store_list"]

\* ------------------------------------------------------- secondary index
\* POST /v3/documents/list filtered by doc_key: the positions of the matching
\* index documents, in the order the service lists them.
ListDocs(idx, key) == {k \in DOMAIN idx : idx[k].doc_key = key}

FirstDoc(docs) == CHOOSE k \in docs : \A j \in docs : k <= j

InSeq(x, seq) == \E i \in DOMAIN seq : seq[i] = x

WithTagAlways(ids, gid) == Append(ids, gid)

\* if constellation_id not in ids: ids.append(constellation_id)
WithTag(ids, gid) == IF InSeq(gid, ids) THEN ids ELSE Append(ids, gid)

\* The effect of a PATCH or POST the index service has accepted.
ApplyPut(idx, put) == IF put.op = "patch" THEN [idx EXCEPT ![put.doc].constellation_ids = put.ids] ELSE Append(idx, [doc_key |-> put.key, constellation_ids |-> put.ids])

\* store.py lines 93-133: the list request returns; the request that follows
\* it (PATCH of docs[0] with the listed tags plus this one, or POST of a new
\* document) is sent.
save_results_listed(ctx, idx, ok, wf) == IF ~ok THEN _run_pipeline_except(ctx, "index list failed", wf) ELSE LET docs == ListDocs(idx, ctx.run.arxiv_id) IN IF docs # {} THEN [ctx EXCEPT !.run.pc = "store_put", !.run.put = Some([op |-> "patch", doc |-> FirstDoc(docs), key |-> ctx.run.arxiv_id, ids |-> WithTag(idx[FirstDoc(docs)].constellation_ids, ctx.run.constellation_id)])] ELSE [ctx EXCEPT !.run.pc = "store_put", !.run.put = Some([op |-> "create", doc |-> 0, key |-> ctx.run.arxiv_id, ids |-> <<ctx.run.constellation_id>>])]

save_results_put_swallows(ctx, ok, wf) == Retire(ctx, "complete")

\* store.py lines 109-138 and ingest.py line 66: the PATCH or POST returns,
\* or raises and is re-raised to _run_pipeline.
save_results_put(ctx, ok, wf) == IF ~ok THEN _run_pipeline_except(ctx, "index write failed", wf) ELSE Retire(ctx, "complete")

\* --------------------------------------------------------- tagging task
NewTag(id, gid) == [arxiv_id |-> id, constellation_id |-> gid, pc |-> "scheduled", put |-> None]

\* ingest.py lines 133-158, up to the PATCH: every exception is caught and
\* logged; nothing is sent when no document is listed or the tag is there.
_tag_constellation_listed(tag, idx, ok) == IF ~ok THEN [tag EXCEPT !.pc = "done"] ELSE LET docs == ListDocs(idx, tag.arxiv_id) IN IF docs = {} THEN [tag EXCEPT !.pc = "done"] ELSE LET ids == idx[FirstDoc(docs)].constellation_ids IN IF InSeq(tag.constellation_id, ids) THEN [tag EXCEPT !.pc = "done"] ELSE [tag EXCEPT !.pc = "patch", !.put = Some([op |-> "patch", doc |-> FirstDoc(docs), key |-> tag.arxiv_id, ids |-> Append(ids, tag.constellation_id)])]

\* ------------------------------------------------------ GET /status/{id}
get_status_all_columns(recs, arxiv_id) == IF recs[arxiv_id].status = "absent" THEN [found |-> FALSE, arxiv_id |-> arxiv_id] ELSE [found |-> TRUE, arxiv_id |-> arxiv_id, status |-> recs[arxiv_id].status, error_message |-> recs[arxiv_id].error_message, pdf_pages |-> None, word_count |-> recs[arxiv_id].word_count, markdown |-> recs[arxiv_id].markdown, densified_markdown |-> recs[arxiv_id].densified_markdown]

\* status.py lines 11-26: the response of the read operation: the columns
\* the select names (pdf_pages is written by no stage; the time stamps are
\* left out), or found = False.  The handler changes nothing.
get_status(recs, arxiv_id) == IF recs[arxiv_id].status = "absent" THEN [found |-> FALSE, arxiv_id |-> arxiv_id] ELSE [found |-> TRUE, arxiv_id |-> arxiv_id, status |-> recs[arxiv_id].status, error_message |-> recs[arxiv_id].error_message, pdf_pages |-> None, word_count |-> recs[arxiv_id].word_count]

\* ------------------------------------------------------------ POST /ingest
\* ingest.py line 76: req.arxiv_id or extract_arxiv_id(req.paper_url)
DerivedId(req) == IF Truthy(req.arxiv_id) THEN req.arxiv_id ELSE extract_arxiv_id(req.paper_url)

\* The response of the handler, with the status store operations it made and
\* the background task it added (ops).
Response(status, aid, gid, ops) == [status |-> status, arxiv_id |-> aid, constellation_id |-> gid, ops |-> ops]

ResetRecordKeepError(rec) == IF rec.status = "absent" THEN NewRecord ELSE [rec EXCEPT !.status = "pending"]

ResetRecordAlwaysInserts(rec) == [NewRecord EXCEPT !.rows = rec.rows + 1]

\* ingest.py lines 94-119: the record after the retry update (a row was
\* selected) or after the insert of one more row (none was).
ResetRecord(rec) == IF rec.status = "absent" THEN [NewRecord EXCEPT !.rows = rec.rows + 1] ELSE [rec EXCEPT !.status = "pending", !.error_message = None]

\* The whole handler: it has no suspension point, and its background task
\* starts only after the response has been sent.
Ingest(req) == /\ nSubmits < MaxSubmits
               /\ nSubmits' = nSubmits + 1
               /\ LET aid == DerivedId(req) IN LET gid == req.constellation_id IN
                  IF ~Truthy(aid)
                  THEN /\ resp' = Response("skipped", None, gid, << >>)
                       /\ UNCHANGED <<records, runs, tags>>
                  ELSE IF Guard(records[aid[1]].status) = "already_complete"
                  THEN /\ tags' = Append(tags, NewTag(aid[1], gid))
                       /\ resp' = Response("already_complete", aid, gid, <<"select", "add_task:_tag_constellation">>)
                       /\ UNCHANGED <<records, runs>>
                  ELSE IF Guard(records[aid[1]].status) = "in_progress"
                  THEN /\ resp' = Response("in_progress", aid, gid, <<"select">>)
                       /\ UNCHANGED <<records, runs, tags>>
                  ELSE /\ records' = [records EXCEPT ![aid[1]] = ResetRecord(@)]
                       /\ runs' = Append(runs, NewRun(aid[1], req.paper_url, gid))
                       /\ resp' = Response("started", aid, gid, <<"select", IF records[aid[1]].status = "absent" THEN "insert" ELSE "update", "add_task:_run_pipeline">>)
                       /\ UNCHANGED tags
               /\ UNCHANGED <<index, hasKey, cv, dz, sp>>

\* ------------------------------------------------- the steps of the tasks
\* The outcomes of the calls of one block, without repetition: at most one
\* call fails (the block stops at the first), and the write of failed is
\* reached only then.
FirstFault(oks, wf) == /\ Cardinality({i \in DOMAIN oks : ~oks[i]}) <= 1
                       /\ (\A i \in DOMAIN oks : oks[i]) => wf

Ctx(r) == [recs |-> records, run |-> runs[r]]

Commit(r, out) == /\ records' = out.recs
                  /\ runs' = [runs EXCEPT ![r] = out.run]
                  /\ UNCHANGED <<tags, hasKey, nSubmits, resp, cv, dz, sp>>

RunStart(r) == /\ runs[r].pc = "scheduled"
               /\ \E w1, wf \in BOOLEAN : FirstFault(<<w1>>, wf) /\ Commit(r, _run_pipeline_start(Ctx(r), w1, wf))
               /\ UNCHANGED index

DownloadReturns(r) == /\ runs[r].pc = "download"
                      /\ \E ok, w2, wf \in BOOLEAN : \E msg \in {"", "HTTP error"} : FirstFault(<<ok, w2>>, wf) /\ (ok => msg = "") /\ Commit(r, _run_pipeline_downloaded(Ctx(r), ok, msg, w2, wf))
                      /\ UNCHANGED index

ConvertReturns(r) == /\ runs[r].pc = "convert"
                     /\ \E ok, w3, wf \in BOOLEAN : \E results \in ChunkResults(NumChunks(runs[r].dl_result[1], PagesPerChunk)) : FirstFault(<<ok, w3>>, wf) /\ Commit(r, _run_pipeline_converted(Ctx(r), ok, results, w3, wf))
                     /\ UNCHANGED index

DensifyReturns(r) == /\ runs[r].pc = "densify"
                     /\ \E ok, cacheOk, w4, wf \in BOOLEAN : \E out \in {DensifyAll(runs[r].md[1]), runs[r].md[1]} : FirstFault(<<cacheOk, w4>>, wf) /\ (~ok => out = runs[r].md[1]) /\ Commit(r, _run_pipeline_densified(Ctx(r), ok, out, cacheOk, w4, wf))
                     /\ UNCHANGED index

StoreListReturns(r) == /\ runs[r].pc = "store_list"
                       /\ \E ok, wf \in BOOLEAN : FirstFault(<<ok>>, wf) /\ Commit(r, save_results_listed(Ctx(r), index, ok, wf))
                       /\ UNCHANGED index

StorePutReturns(r) == /\ runs[r].pc = "store_put"
                      /\ \E ok, wf \in BOOLEAN : /\ FirstFault(<<ok>>, wf)
                                                 /\ Commit(r, save_results_put(Ctx(r), ok, wf))
                                                 /\ index' = IF ok THEN ApplyPut(index, runs[r].put[1]) ELSE index

TagListReturns(t) == /\ tags[t].pc = "scheduled"
                     /\ \E ok \in BOOLEAN : tags' = [tags EXCEPT ![t] = _tag_constellation_listed(@, index, ok)]
                     /\ UNCHANGED <<records, runs, index, hasKey, nSubmits, resp, cv, dz, sp>>

TagPatchReturns(t) == /\ tags[t].pc = "patch"
                      /\ \E ok \in BOOLEAN : /\ tags' = [tags EXCEPT ![t].pc = "done", ![t].put = None]
                                             /\ index' = IF ok THEN ApplyPut(index, tags[t].put[1]) ELSE index
                      /\ UNCHANGED <<records, runs, hasKey, nSubmits, resp, cv, dz, sp>>

\* ------------------------------------------ the conversion stage, by chunk
\* markdown.py line 86: asyncio.Semaphore(8)
ConvertLimit == 8

\* One invocation of convert_pdf_to_markdown on a document of n chunks: the
\* state st[i] of the task of chunk i ("waiting" for the semaphore, "inflight"
\* in the conversion call, "done", "raised"), the result slot of each finished
\* task, the order in which the calls completed (arrival), the state of the
\* caller (out: "running" while it awaits, then "returned" or "raised") and
\* the markdown returned.
CvNew(n) == [n |-> n, st |-> [i \in 1..n |-> "waiting"], slot |-> [i \in 1..n |-> ""], arrival |-> << >>, out |-> "running", md |-> None]

CvIdle == [n |-> 0, st |-> << >>, slot |-> << >>, arrival |-> << >>, out |-> "idle", md |-> None]

InFlight(c) == {i \in 1..c.n : c.st[i] = "inflight"}

GatherAsCompleted(c) == [k \in 1..c.n |-> c.slot[c.arrival[k]]]

\* markdown.py lines 83-94: what the caller receives once every task is done:
\* the single result, or asyncio.gather's list, which is in the order of the
\* awaitables passed to it.
GatherResults(c) == [i \in 1..c.n |-> c.slot[i]]

HasPlaceAlways(c) == TRUE

\* markdown.py lines 83-90: the single chunk of a one-chunk document is
\* converted without a semaphore; otherwise "async with semaphore" lets a
\* task in while fewer than ConvertLimit tasks hold a place.
HasPlace(c) == c.n = 1 \/ Cardinality(InFlight(c)) < ConvertLimit

\* markdown.py lines 88-90: the task of chunk idx enters the semaphore (the
\* single chunk of a one-chunk document is converted without one) and sends
\* its call.  Waiters are served in the order they queued.
CvAcquire(idx) == /\ cv.out # "idle"
                  /\ idx \in 1..cv.n
                  /\ cv.st[idx] = "waiting"
                  /\ \A j \in 1..(idx - 1) : cv.st[j] # "waiting"
                  /\ HasPlace(cv)
                  /\ cv' = [cv EXCEPT !.st[idx] = "inflight"]
                  /\ UNCHANGED <<records, runs, tags, index, hasKey, nSubmits, resp, dz, sp>>

\* markdown.py lines 54-65: the call of chunk idx returns text; a blank text
\* is the empty result "".
CvReturn(idx, text) == /\ idx \in InFlight(cv)
                       /\ cv' = [cv EXCEPT !.st[idx] = "done", !.slot[idx] = text, !.arrival = Append(@, idx)]
                       /\ UNCHANGED <<records, runs, tags, index, hasKey, nSubmits, resp, dz, sp>>

\* markdown.py lines 54-57 and 92-94: the call of chunk idx raises; nothing
\* catches it in the task, and gather hands the first exception to the caller
\* at once, leaving the other tasks running.
CvRaise(idx) == /\ idx \in InFlight(cv)
                /\ cv' = [cv EXCEPT !.st[idx] = "raised", !.arrival = Append(@, idx), !.out = IF @ = "running" THEN "raised" ELSE @]
                /\ UNCHANGED <<records, runs, tags, index, hasKey, nSubmits, resp, dz, sp>>

\* markdown.py lines 96-109: every task is done; the quality gate and the join.
CvGather == /\ cv.out = "running"
            /\ \A i \in 1..cv.n : cv.st[i] = "done"
            /\ cv' = IF TooManyEmpty(GatherResults(cv)) THEN [cv EXCEPT !.out = "raised"] ELSE [cv EXCEPT !.out = "returned", !.md = Some(JoinNonEmpty(GatherResults(cv)))]
            /\ UNCHANGED <<records, runs, tags, index, hasKey, nSubmits, resp, dz, sp>>

\* ----------------------------------------- the densification stage, by section
\* A text is the sequence of its lines, text.split("\n"): the empty string is
\* <<"">>.  The lines a document is made of: a blank line, a line of 40
\* characters, a line of 120 characters, two header lines and a line that
\* starts with three hashes.
Lines == {"", "s", "L", "# A", "## B", "### c"}

\* len(line)
LineLen(line) == CASE line = "" -> 0 [] line = "s" -> 40 [] line = "L" -> 120 [] line = "# A" -> 3 [] line = "## B" -> 4 [] OTHER -> 5

RECURSIVE StrLen(_)
\* len(text): the characters of its lines and the "\n" between them.
StrLen(text) == IF Len(text) = 1 THEN LineLen(text[1]) ELSE LineLen(Head(text)) + 1 + StrLen(Tail(text))

\* densify.py line 39: re.match(r"^#{1,2}\s+", line)
IsHeaderLine(line) == line \in {"# A", "## B"}

RECURSIVE LStrip(_)
LStrip(text) == IF text = << >> THEN << >> ELSE IF Head(text) = "" THEN LStrip(Tail(text)) ELSE text

RECURSIVE RStrip(_)
RStrip(text) == IF text = << >> THEN << >> ELSE IF text[Len(text)] = "" THEN RStrip(SubSeq(text, 1, Len(text) - 1)) ELSE text

\* str.strip(): no line of Lines starts or ends with white space, so what is
\* stripped is the blank lines at either end.
Strip(text) == IF RStrip(LStrip(text)) = << >> THEN <<"">> ELSE RStrip(LStrip(text))

SectionUnstripped(current_header, current_body) == [header |-> current_header, body |-> IF current_body = << >> THEN <<"">> ELSE current_body]

\* densify.py lines 41 and 48: (current_header, "\n".join(current_body).strip())
Section(current_header, current_body) == [header |-> current_header, body |-> Strip(IF current_body = << >> THEN <<"">> ELSE current_body)]

RECURSIVE SplitLines(_, _, _, _)
\* densify.py lines 38-48: the loop over the lines and the flush after it.
SplitLines(lines, current_header, current_body, sections) == IF lines = << >>
    THEN IF current_header # "" \/ current_body # << >> THEN Append(sections, Section(current_header, current_body)) ELSE sections
    ELSE IF IsHeaderLine(Head(lines))
         THEN SplitLines(Tail(lines), Head(lines), << >>, IF current_header # "" \/ current_body # << >> THEN Append(sections, Section(current_header, current_body)) ELSE sections)
         ELSE SplitLines(Tail(lines), current_header, Append(current_body, Head(lines)), sections)

_split_by_headers(markdown) == SplitLines(markdown, "", << >>, << >>)

\* densify.py line 89: len(body) < 100
MinBodyLength == 100

\* densify.py line 86: asyncio.Semaphore(4)
DensifyLimit == 4

Qualifies(body) == ~(StrLen(body) < MinBodyLength)

\* densify.py line 55 and lines 90-92: f"{header}\n{body}" if header else body
SectionText(header, body) == IF header # "" THEN <<header>> \o body ELSE body

\* The text the compression capability returns for a section, stripped.
DenseText(section_text) == <<Compressed(section_text[1])>>

_densify_section_drops(header, body, outcome) == IF outcome = "text" THEN DenseText(SectionText(header, body)) ELSE <<"">>

\* densify.py lines 53-67: the call returns a text, returns nothing or a blank
\* text, or raises; in the last two cases the section text is returned.
_densify_section(header, body, outcome) == IF outcome = "text" THEN DenseText(SectionText(header, body)) ELSE SectionText(header, body)

process_section_always_calls(header, body, outcome) == [called |-> TRUE, text |-> _densify_section(header, body, outcome)]

\* densify.py lines 88-94: a short body is returned at once, without a call;
\* otherwise the call is made under the semaphore.  outcome is what the call
\* does when it is made.
process_section(header, body, outcome) == IF ~Qualifies(body) THEN [called |-> FALSE, text |-> SectionText(header, body)] ELSE [called |-> TRUE, text |-> _densify_section(header, body, outcome)]

RECURSIVE JoinBlank(_)
\* densify.py line 100: "\n\n".join(results)
JoinBlank(results) == IF results = << >> THEN <<"">> ELSE IF Len(results) = 1 THEN results[1] ELSE results[1] \o <<"">> \o JoinBlank(Tail(results))

\* One invocation of densify_markdown: its argument, the sections, the state
\* of the task of each section ("ready", "done"), what its call did ("none":
\* no call; "text", "blank", "raise"), its result slot, the order in which the
\* tasks finished, the sections a compression call was made for, the state of
\* the caller ("called", "running" while it awaits the gather, "returned") and
\* the text returned.
DzNew(markdown) == [markdown |-> markdown, sections |-> << >>, st |-> << >>, outcome |-> << >>, slot |-> << >>, order |-> << >>, calls |-> << >>, out |-> "called", result |-> None]

DzIdle == [markdown |-> <<"">>, sections |-> << >>, st |-> << >>, outcome |-> << >>, slot |-> << >>, order |-> << >>, calls |-> << >>, out |-> "idle", result |-> None]

densify_markdown_ignores_key(d, key) == IF _split_by_headers(d.markdown) = << >> THEN [d EXCEPT !.out = "returned", !.result = Some(d.markdown)] ELSE [d EXCEPT !.out = "running", !.sections = _split_by_headers(d.markdown), !.st = [i \in DOMAIN _split_by_headers(d.markdown) |-> "ready"], !.outcome = [i \in DOMAIN _split_by_headers(d.markdown) |-> "none"], !.slot = [i \in DOMAIN _split_by_headers(d.markdown) |-> <<"">>]]

\* densify.py lines 77-98: without a key, or without sections, the input is
\* returned; otherwise one task per section is handed to asyncio.gather.
densify_markdown(d, key) == IF ~key THEN [d EXCEPT !.out = "returned", !.result = Some(d.markdown)] ELSE IF _split_by_headers(d.markdown) = << >> THEN [d EXCEPT !.out = "returned", !.result = Some(d.markdown)] ELSE [d EXCEPT !.out = "running", !.sections = _split_by_headers(d.markdown), !.st = [i \in DOMAIN _split_by_headers(d.markdown) |-> "ready"], !.outcome = [i \in DOMAIN _split_by_headers(d.markdown) |-> "none"], !.slot = [i \in DOMAIN _split_by_headers(d.markdown) |-> <<"">>]]

DensifyAsCompleted(d) == [k \in DOMAIN d.sections |-> d.slot[d.order[k]]]

\* densify.py lines 96-98: asyncio.gather's list, in the order of the sections.
DensifyResults(d) == [i \in DOMAIN d.sections |-> d.slot[i]]

DzEnter == /\ dz.out = "called"
           /\ dz' = densify_markdown(dz, hasKey)
           /\ UNCHANGED <<records, runs, tags, index, hasKey, nSubmits, resp, cv, sp>>

\* densify.py lines 88-94 and 53-67: the task of section idx runs.  The
\* compression call is made through the synchronous client, so the task runs
\* from the semaphore to its return without a suspension; the loop runs the
\* ready tasks one at a time, and which one runs next is left open.
DzTask(idx, outcome) == /\ dz.out = "running"
                        /\ idx \in DOMAIN dz.sections
                        /\ dz.st[idx] = "ready"
                        /\ dz' = [dz EXCEPT !.st[idx] = "done", !.outcome[idx] = IF process_section(dz.sections[idx].header, dz.sections[idx].body, outcome).called THEN outcome ELSE "none", !.slot[idx] = process_section(dz.sections[idx].header, dz.sections[idx].body, outcome).text, !.order = Append(@, idx), !.calls = IF process_section(dz.sections[idx].header, dz.sections[idx].body, outcome).called THEN Append(@, idx) ELSE @]
                        /\ UNCHANGED <<records, runs, tags, index, hasKey, nSubmits, resp, cv, sp>>

\* The section tasks whose compression call is in flight.  A task is "ready"
\* or "done" in every state: the call of densify.py lines 57-60 blocks the
\* event loop until it returns, so no other task runs during it.
CompressionCalls(d) == {i \in DOMAIN d.st : d.st[i] \notin {"ready", "done"}}

\* densify.py lines 96-100: every task is done; the join.
DzGather == /\ dz.out = "running"
            /\ \A i \in DOMAIN dz.sections : dz.st[i] = "done"
            /\ dz' = [dz EXCEPT !.out = "returned", !.result = Some(JoinBlank(DensifyResults(dz)))]
            /\ UNCHANGED <<records, runs, tags, index, hasKey, nSubmits, resp, cv, sp>>

\* --------------------------------------------------------- specification
Init == /\ records = [id \in Ids |-> NoRecord]
        /\ runs = << >>
        /\ tags = << >>
        /\ index = << >>
        /\ hasKey \in BOOLEAN
        /\ nSubmits = 0
        /\ resp = Response("none", None, "", << >>)
        /\ cv = CvIdle
        /\ dz = DzIdle
        /\ sp = SpIdle

Next == \/ \E req \in Requests : Ingest(req)
        \/ \E r \in DOMAIN runs : RunStart(r)
        \/ \E r \in DOMAIN runs : DownloadReturns(r)
        \/ \E r \in DOMAIN runs : ConvertReturns(r)
        \/ \E r \in DOMAIN runs : DensifyReturns(r)
        \/ \E r \in DOMAIN runs : StoreListReturns(r)
        \/ \E r \in DOMAIN runs : StorePutReturns(r)
        \/ \E t \in DOMAIN tags : TagListReturns(t)
        \/ \E t \in DOMAIN tags : TagPatchReturns(t)

Spec == Init /\ [][Next]_vars

\* One conversion, of a document of 1..MaxChunks chunks.
InitConvert == /\ records = [id \in Ids |-> NoRecord]
               /\ runs = << >>
               /\ tags = << >>
               /\ index = << >>
               /\ hasKey = TRUE
               /\ nSubmits = 0
               /\ resp = Response("none", None, "", << >>)
               /\ cv \in {CvNew(NumChunks(pages, PagesPerChunk)) : pages \in 1..(MaxChunks * PagesPerChunk)}
               /\ dz = DzIdle
               /\ sp = SpIdle

NextConvert == \/ \E idx \in 1..MaxChunks : CvAcquire(idx)
               \/ \E idx \in 1..MaxChunks : \E text \in {"", ChunkText(idx)} : CvReturn(idx, text)
               \/ \E idx \in 1..MaxChunks : CvRaise(idx)
               \/ CvGather

SpecConvert == InitConvert /\ [][NextConvert]_vars

RECURSIVE Texts(_)
\* The texts of at most n lines.
Texts(n) == IF n = 0 THEN {} ELSE {<<l>> : l \in Lines} \cup Texts(n - 1) \cup {Append(t, l) : t \in Texts(n - 1), l \in Lines}

\* One densification, of a document of 1..MaxLines lines, with and without
\* the key.
InitDensify == /\ records = [id \in Ids |-> NoRecord]
               /\ runs = << >>
               /\ tags = << >>
               /\ index = << >>
               /\ hasKey \in BOOLEAN
               /\ nSubmits = 0
               /\ resp = Response("none", None, "", << >>)
               /\ cv = CvIdle
               /\ dz \in {DzNew(markdown) : markdown \in Texts(MaxLines)}
               /\ sp = SpIdle

NextDensify == \/ DzEnter
               \/ \E idx \in 1..MaxLines : \E outcome \in {"text", "blank", "raise"} : DzTask(idx, outcome)
               \/ DzGather

SpecDensify == InitDensify /\ [][NextDensify]_vars

\* The index part of Store and the tagging tasks on a document that is
\* indexed already.  Two submissions of IdA were accepted while its record
\* was pending, so two runs went through the stages together: the first has
\* ended complete and its index document carries the group g1; the second
\* has written densifying before that and awaits its densification.
InitIndex == /\ records = [id \in Ids |-> IF id = IdA THEN [status |-> "complete", error_message |-> None, markdown |-> Some(<<"c1">>), densified_markdown |-> Some(<<"dense c1">>), word_count |-> Some(1), rows |-> 1] ELSE NoRecord]
             /\ runs = <<Retire([recs |-> << >>, run |-> NewRun(IdA, UrlAbsA, "g1")], "complete").run, [NewRun(IdA, UrlAbsA, "g1") EXCEPT !.pc = "densify", !.dl_result = Some(PdfPages(IdA)), !.md = Some(<<"c1">>)]>>
             /\ tags = << >>
             /\ index = <<[doc_key |-> IdA, constellation_ids |-> <<"g1">>]>>
             /\ hasKey = TRUE
             /\ nSubmits = 0
             /\ resp = Response("none", None, "", << >>)
             /\ cv = CvIdle
             /\ dz = DzIdle
             /\ sp = SpIdle

\* The steps of Next, with the submissions that are for the document IdA.
NextIndex == \/ \E req \in {q \in Requests : DerivedId(q) = Some(IdA)} : Ingest(req)
             \/ \E r \in DOMAIN runs : RunStart(r)
             \/ \E r \in DOMAIN runs : DownloadReturns(r)
             \/ \E r \in DOMAIN runs : ConvertReturns(r)
             \/ \E r \in DOMAIN runs : DensifyReturns(r)
             \/ \E r \in DOMAIN runs : StoreListReturns(r)
             \/ \E r \in DOMAIN runs : StorePutReturns(r)
             \/ \E t \in DOMAIN tags : TagListReturns(t)
             \/ \E t \in DOMAIN tags : TagPatchReturns(t)

SpecIndex == InitIndex /\ [][NextIndex]_vars

\* The smallest document whose chunks outnumber the places of the semaphore.
LimitPages == PagesPerChunk * ConvertLimit + 1

\* One conversion of that document, every call returning its text: the
\* tasks queue on the semaphore and the calls return in any order.
InitLimit == /\ records = [id \in Ids |-> NoRecord]
             /\ runs = << >>
             /\ tags = << >>
             /\ index = << >>
             /\ hasKey = TRUE
             /\ nSubmits = 0
             /\ resp = Response("none", None, "", << >>)
             /\ cv = CvNew(NumChunks(LimitPages, PagesPerChunk))
             /\ dz = DzIdle
             /\ sp = SpIdle

NextLimit == \/ \E idx \in 1..(ConvertLimit + 1) : CvAcquire(idx)
             \/ \E idx \in 1..(ConvertLimit + 1) : CvReturn(idx, ChunkText(idx))
             \/ CvGather

SpecLimit == InitLimit /\ [][NextLimit]_vars

\* One split of a document of 1..MaxPages pages into chunks of
\* 1..MaxPagesPerChunk pages.
InitSplit == /\ records = [id \in Ids |-> NoRecord]
             /\ runs = << >>
             /\ tags = << >>
             /\ index = << >>
             /\ hasKey = TRUE
             /\ nSubmits = 0
             /\ resp = Response("none", None, "", << >>)
             /\ cv = CvIdle
             /\ dz = DzIdle
             /\ sp \in {SpNew(total_pages, pages_per_chunk) : total_pages \in 1..MaxPages, pages_per_chunk \in 1..MaxPagesPerChunk}

NextSplit == SplitStep \/ SplitReturn

SpecSplit == InitSplit /\ [][NextSplit]_vars

\* The steps of the tasks when the index service answers every request:
\* the list request of a Store stage returns (the PATCH or POST follows),
\* that request is accepted, the list request of a tagging task returns, and
\* its PATCH is accepted.
StoreListServed(r) == StoreListReturns(r) /\ runs'[r].pc = "store_put"

StorePutServed(r) == StorePutReturns(r) /\ runs'[r].pc = "complete"

TagListServed(t) == TagListReturns(t) /\ tags'[t] = _tag_constellation_listed(tags[t], index, TRUE)

TagPatchServed(t) == TagPatchReturns(t) /\ index' = ApplyPut(index, tags[t].put[1])

\* A step of a background task.
TaskStep == \/ \E r \in DOMAIN runs : RunStart(r)
            \/ \E r \in DOMAIN runs : DownloadReturns(r)
            \/ \E r \in DOMAIN runs : ConvertReturns(r)
            \/ \E r \in DOMAIN runs : DensifyReturns(r)
            \/ \E r \in DOMAIN runs : StoreListServed(r)
            \/ \E r \in DOMAIN runs : StorePutServed(r)
            \/ \E t \in DOMAIN tags : TagListServed(t)
            \/ \E t \in DOMAIN tags : TagPatchServed(t)

NextServed == (\E req \in Requests : Ingest(req)) \/ TaskStep

\* The service with an index service that answers.  The event loop runs
\* every task that is ready, and every outbound call returns or times out
\* (store.py line 34, download.py line 28): a task that can take a step
\* takes one.
SpecServed == Init /\ [][NextServed]_vars /\ WF_vars(TaskStep)

\* ================================================================ claims
\* The runs of identifier id, and those that have started and not ended.
RunsOf(id) == {r \in DOMAIN runs : runs[r].arxiv_id = id}

Unfinished(id) == {r \in RunsOf(id) : runs[r].pc \notin Finished}

Active(id) == {r \in Unfinished(id) : runs[r].pc # "scheduled"}

\* The identifier a request is for (requests without one are skipped).
IdOf(req) == DerivedId(req)[1]

\* C1 as stated: at every moment at most one pipeline run of an identifier is
\* active (started and not ended).
C1_AtMostOneActiveRun == \A id \in Ids : Cardinality(Active(id)) <= 1

\* C1 as amended: a run is added for an identifier only by a step that finds
\* its record absent, pending or failed; no run is started while the status
\* is downloading, converting or densifying.  (Two runs are active together
\* when both submissions land while the record is pending or failed.)
C1_RunStartsOnlyFromPendingOrFailed == [][\A id \in Ids : Cardinality(RunsOf(id)') > Cardinality(RunsOf(id)) => records[id].status \in {"absent", "pending", "failed"}]_vars

\* C1 witness: a submission was answered in_progress while a run of that
\* identifier was in its conversion stage.
C1_Witness == /\ resp.status = "in_progress"
              /\ \E r \in Active(resp.arxiv_id[1]) : runs[r].pc = "convert"
              /\ records[resp.arxiv_id[1]].status = "converting"

\* C2: a submit for an identifier whose record is downloading, converting or
\* densifying returns in_progress, adds neither a run nor a tagging task, and
\* leaves every record (and the index) as it was.
C2_InProgressIsRejected == [][\A req \in Requests : (Ingest(req) /\ Truthy(DerivedId(req)) /\ records[IdOf(req)].status \in {"downloading", "converting", "densifying"}) => (/\ resp'.status = "in_progress" /\ resp'.arxiv_id = Some(IdOf(req)) /\ resp'.ops = <<"select">> /\ records' = records /\ runs' = runs /\ tags' = tags /\ index' = index)]_vars

\* C2 witness: in_progress was returned for a record that is densifying.
C2_Witness == /\ resp.status = "in_progress"
              /\ records[resp.arxiv_id[1]].status = "densifying"
              /\ Cardinality(Unfinished(resp.arxiv_id[1])) = 1

\* C3 as stated: a submit on a complete record returns already_complete,
\* starts no run, leaves the record as it is, and the tagging of the group
\* has been executed when already_complete is returned (no tagging task of
\* the identifier is still to run).
C3_TaggedBeforeReturn == [][\A req \in Requests : (Ingest(req) /\ Truthy(DerivedId(req)) /\ records[IdOf(req)].status = "complete") => (/\ resp'.status = "already_complete" /\ records' = records /\ runs' = runs /\ \A t \in DOMAIN tags' : tags'[t].arxiv_id = IdOf(req) => tags'[t].pc = "done")]_vars

\* C3 as amended: a submit on a complete record returns already_complete,
\* starts no run, leaves every record and the index as they are, and its only
\* effect is one more background task that tags the submitted group; the task
\* has not run when already_complete is returned, and when it runs it changes
\* neither a record nor a run.
C3_TaggingIsScheduled == [][/\ \A req \in Requests : (Ingest(req) /\ Truthy(DerivedId(req)) /\ records[IdOf(req)].status = "complete") => (/\ resp'.status = "already_complete" /\ records' = records /\ runs' = runs /\ index' = index /\ tags' = Append(tags, [arxiv_id |-> IdOf(req), constellation_id |-> req.constellation_id, pc |-> "scheduled", put |-> None]))
                            /\ (\E t \in DOMAIN tags : tags'[t] # tags[t]) => (records' = records /\ runs' = runs)]_vars

\* C3 witness: already_complete has been returned and the tagging task of
\* that submission has not run yet.
C3_Witness == /\ resp.status = "already_complete"
              /\ records[resp.arxiv_id[1]].status = "complete"
              /\ \E t \in DOMAIN tags : tags[t].pc = "scheduled" /\ tags[t].constellation_id = resp.constellation_id

\* C4: a submit with a derivable identifier whose record is absent, pending
\* or failed returns started, leaves the record pending with no error
\* message, and adds a run that has not started; the first step of a run
\* writes downloading and enters the Download stage, whatever the record held
\* before (or ends the run at once when that write or the PDF URL fails).
C4_RetryRestartsAtDownload == [][/\ \A req \in Requests : (Ingest(req) /\ Truthy(DerivedId(req)) /\ records[IdOf(req)].status \in {"absent", "pending", "failed"}) => (/\ resp'.status = "started" /\ records'[IdOf(req)].status = "pending" /\ records'[IdOf(req)].error_message = None /\ Len(runs') = Len(runs) + 1 /\ runs'[Len(runs')].arxiv_id = IdOf(req) /\ runs'[Len(runs')].pc = "scheduled")
                                 /\ \A r \in DOMAIN runs : (runs[r].pc = "scheduled" /\ runs'[r] # runs[r]) => \/ runs'[r].pc = "download" /\ records'[runs[r].arxiv_id].status = "downloading"
                                                                                                               \/ runs'[r].pc \in {"failed", "crashed"} /\ runs'[r].err \in {Some(StoreError), Some("Cannot derive PDF URL")}]_vars

\* C4 witness: a run failed in its conversion stage, the identifier was
\* submitted again (the message is cleared), and the new run is downloading.
C4_Witness == \E id \in Ids : \E r1, r2 \in RunsOf(id) : /\ runs[r1].pc = "failed"
                                                         /\ runs[r1].err = Some("Too many empty chunks")
                                                         /\ runs[r2].pc = "download"
                                                         /\ records[id].status = "downloading"
                                                         /\ records[id].error_message = None

\* The requests that carry no arxiv_id and whose URL is no arXiv abs/pdf
\* reference: another host, a listing page, a pdf URL without a valid id.
NoIdRequests == {req \in Requests : req.arxiv_id \in {None, Some("")} /\ req.paper_url \in {UrlOther, UrlListing, UrlPdfBad}}

\* C5: a submit from which no identifier can be derived returns skipped, and
\* the handler reads and writes nothing: no status store operation, no task
\* added, every record, run, tagging task and index document unchanged.
C5_SkippedHasNoEffect == [][\A req \in NoIdRequests : Ingest(req) => (/\ resp'.status = "skipped" /\ resp'.ops = << >> /\ records' = records /\ runs' = runs /\ tags' = tags /\ index' = index)]_vars

\* C5 witness: skipped was returned while a run of an earlier submission was
\* under way.
C5_Witness == /\ resp.status = "skipped"
              /\ \E r \in DOMAIN runs : runs[r].pc = "densify"

\* The transitions of a record's status the state machine allows: creation
\* in pending, the stage order, any state to failed, and failed or pending
\* back to pending.
AllowedTransition(from, to) == \/ from = "absent" /\ to = "pending"
                               \/ from = "pending" /\ to = "downloading"
                               \/ from = "downloading" /\ to = "converting"
                               \/ from = "converting" /\ to = "densifying"
                               \/ from = "densifying" /\ to = "complete"
                               \/ to = "failed"
                               \/ from \in {"failed", "pending"} /\ to = "pending"

\* C6 as stated: every change of a record's status is an allowed transition;
\* the status never moves backwards along the stage order and never leaves
\* complete for an in-progress state.
C6_OnlyAllowedTransitions == [][\A id \in Ids : records'[id].status # records[id].status => AllowedTransition(records[id].status, records'[id].status)]_vars

\* What a step of a run that leaves it in position pc2 does to the status
\* of its record: the status of the stage entered, failed, or (the run died
\* on a refused write of failed) at most the in-progress status the step had
\* already written.
RunWrite(pc1, pc2, from, to) == \/ pc1 = "scheduled" /\ pc2 = "download" /\ to = "downloading"
                                \/ pc1 = "download" /\ pc2 = "convert" /\ to = "converting"
                                \/ pc1 = "convert" /\ pc2 = "densify" /\ to = "densifying"
                                \/ pc1 = "densify" /\ pc2 = "store_list" /\ to = "complete"
                                \/ pc1 = "store_list" /\ pc2 = "store_put" /\ to = from
                                \/ pc1 = "store_put" /\ pc2 = "complete" /\ to = from
                                \/ pc2 = "failed" /\ to = "failed"
                                \/ pc2 = "crashed" /\ (to = from \/ (pc1 = "scheduled" /\ to = "downloading") \/ (pc1 = "download" /\ to = "converting"))

\* C6 as amended: a submission changes a status only from absent or failed
\* to pending, never from complete or an in-progress state; each run writes
\* downloading, converting, densifying, complete in that order, one per
\* stage it enters, or failed at any point; and nothing else changes a
\* status.  (The order is that of one run: when two runs of an identifier
\* overlap, the record's status can move backwards or leave failed or
\* complete for an in-progress state.)
C6_EachRunWritesInStageOrder == [][/\ \A id \in Ids : (nSubmits' # nSubmits /\ records'[id].status # records[id].status) => (records[id].status \in {"absent", "failed"} /\ records'[id].status = "pending")
                                   /\ \A r \in DOMAIN runs : runs'[r] # runs[r] => RunWrite(runs[r].pc, runs'[r].pc, records[runs[r].arxiv_id].status, records'[runs[r].arxiv_id].status)
                                   /\ \A id \in Ids : records'[id].status # records[id].status => (nSubmits' # nSubmits \/ \E r \in RunsOf(id) : runs'[r] # runs[r])]_vars

\* C6 witness: a run failed in its download, the identifier was submitted
\* again afterwards (the message was cleared), and the second run took the
\* record from pending through every stage to complete.
C6_Witness == \E id \in Ids : \E r1, r2 \in RunsOf(id) : /\ r1 < r2
                                                         /\ runs[r1].pc = "failed"
                                                         /\ runs[r1].err = Some("HTTP error")
                                                         /\ runs[r2].pc = "complete"
                                                         /\ records[id].status = "complete"
                                                         /\ records[id].error_message = None

\* The messages each stage raises with.
DownloadErrors == {Some("Cannot derive PDF URL"), Some(""), Some("HTTP error")}

ConvertErrors == {Some("No GEMINI_API_KEY set, cannot convert PDF"), Some("conversion call failed"), Some("Too many empty chunks")}

StoreErrors == {Some("cache write failed"), Some(StoreError), Some("index list failed"), Some("index write failed")}

\* The position a run is in when a stage raises with message err.
RaisedIn(pc, err) == \/ err \in DownloadErrors /\ pc \in {"scheduled", "download"}
                     \/ err \in ConvertErrors /\ pc \in {"download", "convert"}
                     \/ err \in StoreErrors /\ pc \in {"scheduled", "download", "convert", "densify", "store_list", "store_put"}

C8_EndsCompleteOrFailed == \A id \in Ids : (RunsOf(id) # {} /\ Unfinished(id) = {}) => records[id].status \in {"complete", "failed"}

\* The chunks whose result is empty and those whose result is not, once the
\* conversion calls have returned.
EmptyChunks == {i \in 1..cv.n : cv.st[i] = "done" /\ cv.slot[i] = ""}

TextChunks == {i \in 1..cv.n : cv.st[i] = "done" /\ cv.slot[i] # ""}

AllReturned == cv.n >= 1 /\ \A i \in 1..cv.n : cv.st[i] = "done"

\* The j-th smallest element of a set of chunk indexes.
Nth(S, j) == CHOOSE i \in S : Cardinality({x \in S : x <= i}) = j

\* C9: with n >= 1 chunk results of which e are empty, the conversion raises
\* exactly when 2 * e > n and otherwise returns; with 5 chunks it returns
\* with 2 empty and raises with 3; when it raises no markdown is returned
\* (so none reaches the Store stage).
C9_QualityGate == (AllReturned /\ cv.out # "running") => /\ cv.out = "raised" <=> 2 * Cardinality(EmptyChunks) > cv.n
                                                         /\ cv.out = "returned" <=> 2 * Cardinality(EmptyChunks) <= cv.n
                                                         /\ cv.out = "raised" => cv.md = None
                                                         /\ cv.out = "returned" => cv.md # None
                                                         /\ (cv.n = 5 /\ Cardinality(EmptyChunks) = 2) => cv.out = "returned"
                                                         /\ (cv.n = 5 /\ Cardinality(EmptyChunks) = 3) => cv.out = "raised"

\* C9 witness: five chunks, three of them empty, and the conversion raised.
C9_Witness == /\ AllReturned
              /\ cv.n = 5
              /\ Cardinality(EmptyChunks) = 3
              /\ cv.out = "raised"
              /\ cv.md = None

\* C10: whatever the order in which the calls completed, a conversion that
\* returns yields the texts of the non-empty chunks in ascending chunk
\* index, with a blank line between two of them and nothing else.
C10_OutputInChunkOrder == cv.out = "returned" => /\ Len(cv.md[1]) = 2 * Cardinality(TextChunks) - 1
                                                 /\ \A j \in 1..Cardinality(TextChunks) : cv.md[1][2 * j - 1] = ChunkText(Nth(TextChunks, j))
                                                 /\ \A j \in 1..(Cardinality(TextChunks) - 1) : cv.md[1][2 * j] = SEP

\* C10 witness: three chunks whose calls completed in the order 3, 1, 2, all
\* with text, and the conversion returned.
C10_Witness == /\ cv.out = "returned"
               /\ cv.n = 3
               /\ cv.arrival = <<3, 1, 2>>
               /\ Cardinality(TextChunks) = 3

\* The text section i of the densified document is to hold, by what the
\* call of its task did: the compressed text, or the section text.
Piece(i) == IF dz.outcome[i] = "text" THEN DenseText(SectionText(dz.sections[i].header, dz.sections[i].body)) ELSE SectionText(dz.sections[i].header, dz.sections[i].body)

RECURSIVE Off(_)
\* The line of the output at which the text of section i starts.
Off(i) == IF i = 1 THEN 1 ELSE Off(i - 1) + Len(Piece(i - 1)) + 1

\* C11: whatever the order in which the section tasks finished, the text
\* densification returns holds one result per section (compressed, passed
\* through or substituted), in the order of the sections, with a blank line
\* between two of them and nothing else.
C11_SectionsInOrder == (dz.out = "returned" /\ dz.sections # << >>) => /\ Len(dz.result[1]) = Off(Len(dz.sections)) + Len(Piece(Len(dz.sections))) - 1
                                                                       /\ \A i \in DOMAIN dz.sections : \A k \in 1..Len(Piece(i)) : dz.result[1][Off(i) + k - 1] = Piece(i)[k]
                                                                       /\ \A i \in 1..(Len(dz.sections) - 1) : dz.result[1][Off(i) + Len(Piece(i))] = ""

\* C11 witness: three sections whose tasks finished in the order 3, 1, 2, the
\* first compressed and the other two passed through.
C11_Witness == /\ dz.out = "returned"
               /\ Len(dz.sections) = 3
               /\ dz.order = <<3, 1, 2>>
               /\ dz.outcome = <<"text", "none", "none">>

RECURSIVE RawSplit(_, _, _)
\* The sections of a document as they stand in it: each header line with
\* the lines that follow it up to the next header line.
RawSplit(lines, current, sections) == IF lines = << >>
    THEN IF current # << >> THEN Append(sections, current) ELSE sections
    ELSE IF IsHeaderLine(Head(lines))
         THEN RawSplit(Tail(lines), <<Head(lines)>>, IF current # << >> THEN Append(sections, current) ELSE sections)
         ELSE RawSplit(Tail(lines), Append(current, Head(lines)), sections)

\* C13 as stated: for a section whose body is shorter than the minimum body length no
\* compression call is made, and the text emitted for it is identical to
\* its text in the input document.
C13_ShortSectionEmittedIdentical == (dz.out = "returned" /\ dz.sections # << >>) => \A i \in DOMAIN dz.sections : ~Qualifies(dz.sections[i].body) => (~InSeq(i, dz.calls) /\ dz.slot[i] = RawSplit(dz.markdown, << >>, << >>)[i])

\* The header line of a section as it stands in the document ("" when it
\* has none), and the lines of its body.
RawHeader(raw) == IF IsHeaderLine(raw[1]) THEN raw[1] ELSE ""

RawBody(raw) == IF IsHeaderLine(raw[1]) THEN Tail(raw) ELSE raw

\* C13 as amended: for a section whose body is shorter than the minimum
\* body length no compression call is made, and the text emitted for it is
\* its header line, a line break and its body without the blank lines at
\* either end (the body alone when it has no header): the text of the input
\* up to the white space around the body.
C13_ShortSectionPassedThrough == (dz.out = "returned" /\ dz.sections # << >>) => \A i \in DOMAIN dz.sections : ~Qualifies(dz.sections[i].body) => /\ ~InSeq(i, dz.calls)
                                                                                                                                                  /\ RawHeader(RawSplit(dz.markdown, << >>, << >>)[i]) # "" => dz.slot[i] = <<RawHeader(RawSplit(dz.markdown, << >>, << >>)[i])>> \o Strip(IF RawBody(RawSplit(dz.markdown, << >>, << >>)[i]) = << >> THEN <<"">> ELSE RawBody(RawSplit(dz.markdown, << >>, << >>)[i]))
                                                                                                                                                  /\ RawHeader(RawSplit(dz.markdown, << >>, << >>)[i]) = "" => dz.slot[i] = Strip(RawBody(RawSplit(dz.markdown, << >>, << >>)[i]))

\* C13 witness: a short section with a blank line between its header and its
\* body was emitted without the blank line, and without a call.
C13_Witness == /\ hasKey
               /\ dz.out = "returned"
               /\ dz.markdown = <<"# A", "", "s">>
               /\ dz.slot = <<(<<"# A", "s">>)>>
               /\ dz.calls = << >>

\* The sections whose compression call raised, and those it returned a text for.
FailedSections == {i \in DOMAIN dz.sections : dz.outcome[i] = "raise"}

CompressedSections == {i \in DOMAIN dz.sections : dz.outcome[i] = "text"}

C16_NoKeyIsPassthrough == (~hasKey /\ dz.out = "returned") => (dz.result = Some(dz.markdown) /\ dz.calls = << >> /\ dz.order = << >>)

\* C16 witness: without the key, a document with a qualifying section and a
\* blank line after its header was returned.
C16_Witness == /\ ~hasKey
               /\ dz.out = "returned"
               /\ dz.markdown = <<"# A", "", "L">>
               /\ dz.result = Some(<<"# A", "", "L">>)

\* C12 as stated: a chunk whose conversion call raises counts as an empty
\* result of that chunk only; the conversion raises only once every chunk
\* has resolved and more than half of them are empty or failed.
C12_ChunkFailureIsEmptyResult == cv.out = "raised" => /\ \A i \in 1..cv.n : cv.st[i] \in {"done", "raised"}
                                                      /\ 2 * Cardinality({i \in 1..cv.n : cv.st[i] = "raised" \/ cv.slot[i] = ""}) > cv.n

\* C15: a run leaves its densification stage either into Store, with the
\* record written complete, its markdown the conversion output and its
\* densified markdown what densification returned or, when it raised, the
\* conversion output again; or by a refused cache or record write of Store.
\* A raising densification never ends the run.
C15_DensifyFailureIsNotFatal == [][\A r \in DOMAIN runs : (runs[r].pc = "densify" /\ runs'[r] # runs[r]) => \/ /\ runs'[r].pc = "store_list"
                                                                                                                /\ records'[runs[r].arxiv_id].status = "complete"
                                                                                                                /\ records'[runs[r].arxiv_id].markdown = runs[r].md
                                                                                                                /\ records'[runs[r].arxiv_id].densified_markdown \in {runs[r].md, Some(DensifyAll(runs[r].md[1]))}
                                                                                                                /\ records'[runs[r].arxiv_id].word_count = Some(WordCount(records'[runs[r].arxiv_id].densified_markdown[1]))
                                                                                                             \/ /\ runs'[r].pc \in {"failed", "crashed"}
                                                                                                                /\ runs'[r].err \in {Some("cache write failed"), Some(StoreError)}]_vars

\* C15 witness: a run ended complete and its record holds the conversion
\* output as markdown and as densified markdown.
C15_Witness == \E r \in DOMAIN runs : /\ runs[r].pc = "complete"
                                      /\ records[runs[r].arxiv_id].status = "complete"
                                      /\ records[runs[r].arxiv_id].markdown = Some(<<"c1">>)
                                      /\ records[runs[r].arxiv_id].densified_markdown = Some(<<"c1">>)

Succeeded == {id \in Ids : records[id].status = "complete" /\ \E r \in RunsOf(id) : runs[r].pc = "complete"}

InitIndexIsReachable == /\ records[IdA].status = "complete"
                        /\ Len(runs) = 2
                        /\ runs[1].arxiv_id = IdA /\ runs[1].pc = "complete"
                        /\ runs[2] = [NewRun(IdA, UrlAbsA, "g1") EXCEPT !.pc = "densify", !.dl_result = Some(PdfPages(IdA)), !.md = Some(<<"c1">>)]
                        /\ index = <<[doc_key |-> IdA, constellation_ids |-> <<"g1">>]>>
                        /\ tags = << >>
                        /\ hasKey

\* C17: in every index document every group id is there at most once,
\* whatever tagging tasks and Store index writes were interleaved on it.
C17_NoDuplicateTags == \A k \in DOMAIN index : \A i, j \in DOMAIN index[k].constellation_ids : index[k].constellation_ids[i] = index[k].constellation_ids[j] => i = j

\* C17 witness: the same group was tagged twice on the indexed document and
\* the group is there once.
C17_Witness == /\ Len(tags) = 2
               /\ \A t \in DOMAIN tags : tags[t].arxiv_id = IdA /\ tags[t].constellation_id = "g2" /\ tags[t].pc = "done"
               /\ index[1].constellation_ids = <<"g1", "g2">>
               /\ Len(index) = 1

\* C18 as stated: a group id that is in the tag set of an index document
\* stays in it: no step removes it.
C18_TagsAreNeverRemoved == [][\A k \in DOMAIN index : \A i \in DOMAIN index[k].constellation_ids : InSeq(index[k].constellation_ids[i], index'[k].constellation_ids)]_vars

\* C21: the table holds at most one record of an identifier, whatever
\* submissions and runs are interleaved (a submission inserts a row only
\* when its select found none), and no step removes a record.
C21_OneRecordPerIdentifier == [][\A id \in Ids : /\ records'[id].rows <= 1
                                                 /\ records'[id].rows >= records[id].rows
                                                 /\ records'[id].rows = 0 <=> records'[id].status = "absent"]_vars

\* C21 witness: two submissions of one identifier were accepted, the second
\* one while the record was pending and the first run had not started; the
\* second updated the one record, and both runs exist.
C21_Witness == /\ resp.status = "started"
               /\ resp.ops = <<"select", "update", "add_task:_run_pipeline">>
               /\ Cardinality(RunsOf(resp.arxiv_id[1])) = 2
               /\ \A r \in RunsOf(resp.arxiv_id[1]) : runs[r].pc = "scheduled"
               /\ records[resp.arxiv_id[1]].rows = 1

\* The status a run writes before it invokes the stage of position pc.
StageStatus(pc) == CASE pc = "download" -> "downloading" [] pc = "convert" -> "converting" [] pc = "densify" -> "densifying" [] OTHER -> "none"

\* C22: a run enters its download, conversion or densification stage only
\* in a step that has written the status of that stage (downloading,
\* converting, densifying) to its record; when a status write raises the
\* run ends with that error, and no stage is invoked by it.
C22_StageFollowsItsStatusWrite == [][\A r \in DOMAIN runs : /\ (runs'[r].pc # runs[r].pc /\ runs'[r].pc \in {"download", "convert", "densify"}) => records'[runs[r].arxiv_id].status = StageStatus(runs'[r].pc)
                                                            /\ (runs'[r].pc # runs[r].pc /\ runs'[r].err = Some(StoreError)) => runs'[r].pc \in {"failed", "crashed"}]_vars

\* C22 witness: one run is in its densification stage with densifying
\* written; the run of another identifier ended on a refused status write.
C22_Witness == \E r1, r2 \in DOMAIN runs : /\ runs[r1].pc = "densify"
                                           /\ records[runs[r1].arxiv_id].status = "densifying"
                                           /\ runs[r2].pc = "failed"
                                           /\ runs[r2].err = Some(StoreError)
                                           /\ records[runs[r2].arxiv_id].status = "failed"

\* C23 as stated: when an index call of the Store stage of a run fails, the
\* status of the run's record is left as it is (complete, as Store wrote
\* it): the failure does not change it to failed.
C23_IndexFailureLeavesComplete == [][\A r \in DOMAIN runs : (runs[r].pc \in {"store_list", "store_put"} /\ runs'[r].err \in {Some("index list failed"), Some("index write failed")}) => records'[runs[r].arxiv_id].status = records[runs[r].arxiv_id].status]_vars

\* The runs of identifier id that ended before their Store stage: in the
\* download or in the conversion.
FailedBeforeStore(id) == {r \in RunsOf(id) : runs[r].pc = "failed" /\ runs[r].err \in DownloadErrors \cup ConvertErrors}

\* The runs of identifier id that went through Store and ended complete.
StoredAndComplete(id) == {r \in RunsOf(id) : runs[r].pc = "complete"}

\* C24 as stated: two runs were started for an identifier and both have
\* ended; when every Store stage that was executed for it was that of a run
\* that succeeded (the other run, if any, failed before its Store stage),
\* the record is complete and holds markdown and densified markdown.
C24_LastSuccessfulStoreWins == \A id \in Ids : (/\ Cardinality(RunsOf(id)) = 2
                                                /\ StoredAndComplete(id) # {}
                                                /\ RunsOf(id) = StoredAndComplete(id) \cup FailedBeforeStore(id)) => (/\ records[id].status = "complete"
                                                                                                                      /\ records[id].markdown # None
                                                                                                                      /\ records[id].densified_markdown # None)

C26_StageEndsAfterItsTasks == /\ cv.out \in {"returned", "raised"} => \A i \in 1..cv.n : cv.st[i] \in {"done", "raised"}
                              /\ dz.out = "returned" => \A i \in DOMAIN dz.st : dz.st[i] = "done"

\* The chunks of the returned split that hold page p.
ChunksWith(p) == {c \in DOMAIN sp.chunks : sp.chunks[c].from_page <= p /\ p <= sp.chunks[c].to_page}

\* C27: the chunks the splitter returns for a document of n pages and a
\* chunk size k are in page order, each page 0..n-1 is in exactly one chunk
\* and no chunk holds another page; every chunk but the last has k pages;
\* and a document of fewer than k pages yields exactly one chunk.
C27_ChunksCoverThePages == sp.out = "returned" => /\ \A p \in 0..(sp.total_pages - 1) : Cardinality(ChunksWith(p)) = 1
                                                  /\ \A c \in DOMAIN sp.chunks : 0 <= sp.chunks[c].from_page /\ sp.chunks[c].from_page <= sp.chunks[c].to_page /\ sp.chunks[c].to_page <= sp.total_pages - 1
                                                  /\ \A c \in 1..(Len(sp.chunks) - 1) : sp.chunks[c + 1].from_page = sp.chunks[c].to_page + 1
                                                  /\ \A c \in 1..(Len(sp.chunks) - 1) : sp.chunks[c].to_page - sp.chunks[c].from_page + 1 = sp.pages_per_chunk
                                                  /\ sp.total_pages < sp.pages_per_chunk => Len(sp.chunks) = 1
                                                  /\ Len(sp.chunks) = NumChunks(sp.total_pages, sp.pages_per_chunk)

\* C27 witness: twelve pages in chunks of five: two full chunks and a last
\* chunk of two pages.
C27_Witness == /\ sp.out = "returned"
               /\ sp.total_pages = 12
               /\ sp.pages_per_chunk = 5
               /\ sp.chunks = <<[from_page |-> 0, to_page |-> 4], [from_page |-> 5, to_page |-> 9], [from_page |-> 10, to_page |-> 11]>>

\* The lines of a section: its header line, if it has one, and the lines of
\* its body, if it is not empty.
SectionLines(sec) == IF sec.header = "" THEN sec.body ELSE IF sec.body = <<"">> THEN <<sec.header>> ELSE <<sec.header>> \o sec.body

RECURSIVE ConcatSections(_)
\* The sections concatenated in order, headers included.
ConcatSections(sections) == IF sections = << >> THEN << >> ELSE SectionLines(Head(sections)) \o ConcatSections(Tail(sections))

RECURSIVE NonBlank(_)
\* The lines of a text that are not blank, in order.
NonBlank(text) == IF text = << >> THEN << >> ELSE IF Head(text) = "" THEN NonBlank(Tail(text)) ELSE <<Head(text)>> \o NonBlank(Tail(text))

\* C28 as stated: the sections of a document, concatenated in order with
\* their headers, are the document, line for line.
C28_SectionsRebuildTheDocument == dz.sections # << >> => ConcatSections(dz.sections) = dz.markdown

\* C28 as amended: the sections are, in order, the header lines of the
\* document (and what precedes the first one, without a header), each with
\* the lines up to the next header line as its body, the blank lines at
\* the start and at the end of the body removed; concatenated in order
\* they hold every line of the document that is not blank, in the
\* document's order.
C28_SectionsRebuildUpToBlankLines == dz.sections # << >> => /\ Len(dz.sections) = Len(RawSplit(dz.markdown, << >>, << >>))
                                                            /\ \A i \in DOMAIN dz.sections : dz.sections[i].header = RawHeader(RawSplit(dz.markdown, << >>, << >>)[i])
                                                            /\ \A i \in DOMAIN dz.sections : dz.sections[i].body = Strip(IF RawBody(RawSplit(dz.markdown, << >>, << >>)[i]) = << >> THEN <<"">> ELSE RawBody(RawSplit(dz.markdown, << >>, << >>)[i]))
                                                            /\ NonBlank(ConcatSections(dz.sections)) = NonBlank(dz.markdown)

\* C28 witness: a document with text before its first header and a blank
\* line after the header was split into two sections, the blank line gone.
C28_Witness == /\ dz.markdown = <<"s", "# A", "", "L">>
               /\ dz.sections = <<[header |-> "", body |-> <<"s">>], [header |-> "# A", body |-> <<"L">>]>>
               /\ ConcatSections(dz.sections) = <<"s", "# A", "L">>

\* C29 as stated: a record carries an error message only while its status
\* is failed.
C29_ErrorMessageOnlyWhenFailed == \A id \in Ids : records[id].error_message # None => records[id].status = "failed"

\* The step is the record write of the Store stage of run r: the run leaves
\* its densification for the index part of Store, and the record holds
\* status complete with the markdown, the densified markdown and the word
\* count of that run.
StoreWriteOf(r) == /\ runs[r].pc = "densify"
                   /\ runs'[r].pc = "store_list"
                   /\ records'[runs[r].arxiv_id].status = "complete"
                   /\ records'[runs[r].arxiv_id].markdown = runs'[r].md
                   /\ records'[runs[r].arxiv_id].densified_markdown = runs'[r].densified
                   /\ records'[runs[r].arxiv_id].word_count = Some(WordCount(runs'[r].densified[1]))

\* C30: a record that is complete holds markdown, densified markdown and
\* word count; a step sets a status to complete, or changes one of the three
\* fields, only as the record write of the Store stage of one run, which
\* writes the status and the three fields of that run together.
C30_CompleteComesWithContent == [][\A id \in Ids : /\ records'[id].status = "complete" => (records'[id].markdown # None /\ records'[id].densified_markdown # None /\ records'[id].word_count # None)
                                                   /\ (records'[id].status = "complete" /\ records[id].status # "complete") => \E r \in RunsOf(id) : StoreWriteOf(r)
                                                   /\ (records'[id].markdown # records[id].markdown \/ records'[id].densified_markdown # records[id].densified_markdown \/ records'[id].word_count # records[id].word_count) => \E r \in RunsOf(id) : StoreWriteOf(r)]_vars

\* C30 witness: two overlapping runs of one identifier both went through
\* Store and ended complete; the record is complete with the content.
C30_Witness == \E id \in Ids : /\ Cardinality(StoredAndComplete(id)) = 2
                               /\ records[id].status = "complete"
                               /\ records[id].markdown = Some(<<"c1">>)
                               /\ records[id].densified_markdown = Some(<<"dense c1">>)
                               /\ records[id].word_count = Some(1)

\* Group gid is in the tag set of an index document of identifier id.
Tagged(id, gid) == \E k \in DOMAIN index : index[k].doc_key = id /\ InSeq(gid, index[k].constellation_ids)

\* C31 as stated: when the index service answers every call, a submission
\* that returns already_complete for a group leads to a state from which the
\* group is in the tag set of the identifier's index document for good.
C31_AlreadyCompleteGetsTagged == \A id \in Ids : \A gid \in {"g1", "g2"} : [](resp = Response("already_complete", Some(id), gid, <<"select", "add_task:_tag_constellation">>) => <>[]Tagged(id, gid))

\* C32 as stated: while the status of a record is downloading, converting
\* or densifying, a run of its identifier has not ended yet.
C32_InProgressHasARun == \A id \in Ids : records[id].status \in InProgress => Unfinished(id) # {}

\* C33 as stated: the index holds at most one document per doc key,
\* whatever Store stages of one identifier were interleaved.
C33_OneIndexDocumentPerKey == \A id \in Ids : Cardinality(ListDocs(index, id)) <= 1

====
